---- MODULE Spec2Model ----
(***************************************************************************)
(* Model of rate-constant-calculation.py: a Streamlit script that is run   *)
(* from top to bottom on every input event.  One run splits the text area  *)
(* on the chosen column separator, parses it into a (Time, Conc) frame,    *)
(* fits the zeroth, first and second order linearisations with             *)
(* scipy.stats.linregress, compiles the results and picks the order with   *)
(* the largest R2.                                                         *)
(*                                                                         *)
(* A number is <<num, den, e>>: the real (num / den) * (ln 2)^e, in lowest *)
(* terms with den > 0; <<0, 0, 0>> is nan and <<1, 0, 0>>, <<-1, 0, 0>>    *)
(* are the infinities.  np.log of a power of two is a multiple of ln 2, so *)
(* every value of the first order fit on such concentrations is held       *)
(* exactly.  A state holds the real number a float64 of the script         *)
(* approximates; the logarithms and the first and second order fits of the *)
(* first run, on default_data, are held to eight decimals.  Where rounding *)
(* of float64 decides an outcome the model carries it: rvalue**2 is a pair *)
(* of the exact value (near) and its place among the values that are equal *)
(* before rounding (rank), and ":.4f" on a value halfway between two       *)
(* printed numbers follows the float64 nearest to it.  linregress returns  *)
(* rvalue; the script only uses rvalue**2, which is what the model carries *)
(* (rvalue_sq).                                                            *)
(***************************************************************************)
EXTENDS Integers, Sequences, FiniteSets, TLC

VARIABLES raw_text, delimiter, valid_data, df, x0, y0, reg0, df_log, x1, y1,
          reg1, df_inv, x2, y2, reg2, results, best_order, shown

vars == <<raw_text, delimiter, valid_data, df, x0, y0, reg0, df_log, x1, y1,
          reg1, df_inv, x2, y2, reg2, results, best_order, shown>>

\* Largest number of lines the text area holds in the model.
MaxRows == 3

-----------------------------------------------------------------------------
(* Arithmetic on the reals that the script's float64 values approximate.   *)

NaN == <<0, 0, 0>>

Inf == <<1, 0, 0>>

IsNaN(a) == a[2] = 0 /\ a[1] = 0

\* A value outside the numbers the model holds: evaluation stops.
Unmodelled(a) == CHOOSE v \in {} : v = a

AbsInt(n) == IF n < 0 THEN -n ELSE n

Sign(n) == IF n > 0 THEN 1 ELSE IF n < 0 THEN -1 ELSE 0

RECURSIVE GCD(_, _)
GCD(a, b) == IF b = 0 THEN a ELSE GCD(b, a % b)

\* (n / d) * (ln 2)^e for d # 0, in lowest terms.
Val(n, d, e) ==
    IF n = 0 THEN <<0, 1, 0>>
    ELSE IF d = 1 THEN <<n, 1, e>>
    ELSE LET g == GCD(AbsInt(n), AbsInt(d))
             s == IF d < 0 THEN -1 ELSE 1
         IN  <<(s * n) \div g, (s * d) \div g, e>>

Num(n) == <<n, 1, 0>>

\* IEEE sums with nan or an infinity among the operands.
AddNonFinite(a, b) ==
    IF IsNaN(a) \/ IsNaN(b) THEN NaN
    ELSE IF a[2] = 0 /\ b[2] = 0 THEN (IF a[1] = b[1] THEN a ELSE NaN)
    ELSE IF a[2] = 0 THEN a ELSE b

Add(a, b) ==
    IF a[2] = 0 \/ b[2] = 0 THEN AddNonFinite(a, b)
    ELSE IF a[1] = 0 THEN b
    ELSE IF b[1] = 0 THEN a
    ELSE IF a[3] = b[3]
         THEN LET g == GCD(a[2], b[2])
              IN  Val(a[1] * (b[2] \div g) + b[1] * (a[2] \div g),
                      (a[2] \div g) * b[2], a[3])
    ELSE Unmodelled(<<a, b>>)

Neg(a) == <<-a[1], a[2], a[3]>>

Sub(a, b) == Add(a, Neg(b))

\* IEEE products with nan or an infinity among the operands: inf * 0 is nan.
MulNonFinite(a, b) ==
    IF a[1] = 0 \/ b[1] = 0 THEN NaN
    ELSE <<Sign(a[1]) * Sign(b[1]), 0, 0>>

\* The product of two fractions in lowest terms, cancelled crosswise before
\* it is multiplied out.
Mul(a, b) ==
    IF a[2] = 0 \/ b[2] = 0 THEN MulNonFinite(a, b)
    ELSE IF a[1] = 0 \/ b[1] = 0 THEN Num(0)
    ELSE LET g == GCD(AbsInt(a[1]), b[2])
             h == GCD(AbsInt(b[1]), a[2])
         IN  <<(a[1] \div g) * (b[1] \div h), (a[2] \div h) * (b[2] \div g),
               a[3] + b[3]>>

\* float64 division as numpy does it: 0/0 is nan, a nonzero number over
\* zero is an infinity, a finite number over an infinity is 0.
Div(a, b) ==
    IF IsNaN(a) \/ IsNaN(b) THEN NaN
    ELSE IF b[2] = 0 THEN (IF a[2] = 0 THEN NaN ELSE Num(0))
    ELSE IF a[2] = 0 THEN <<a[1] * (IF b[1] < 0 THEN -1 ELSE 1), 0, 0>>
    ELSE IF b[1] = 0 THEN (IF a[1] = 0 THEN NaN ELSE <<Sign(a[1]), 0, 0>>)
    ELSE Mul(a, <<Sign(b[1]) * b[2], AbsInt(b[1]), -b[3]>>)

Abs(a) == <<AbsInt(a[1]), a[2], a[3]>>

\* n / d < m / e for d, e > 0, by whole parts and then by the remainders.
RECURSIVE FracLess(_, _, _, _)
FracLess(n, d, m, e) ==
    IF n \div d # m \div e THEN n \div d < m \div e
    ELSE IF m % e = 0 THEN FALSE
    ELSE IF n % d = 0 THEN TRUE
    ELSE FracLess(e, m % e, d, n % d)

\* Comparisons with nan are False, as in Python; -inf is below and inf above
\* every other number.  Two nonzero finite numbers are compared when they
\* carry the same power of ln 2 or differ in sign.
Less(a, b) ==
    /\ ~IsNaN(a) /\ ~IsNaN(b)
    /\ IF a[2] = 0 \/ b[2] = 0
       THEN (IF a[2] = 0 THEN a[1] ELSE 0) < (IF b[2] = 0 THEN b[1] ELSE 0)
       ELSE IF Sign(a[1]) # Sign(b[1]) THEN a[1] < b[1]
       ELSE IF a[3] = b[3] THEN FracLess(a[1], a[2], b[1], b[2])
       ELSE Unmodelled(<<a, b>>)

Greater(a, b) == Less(b, a)

RECURSIVE Sum(_)
Sum(s) == IF s = <<>> THEN Num(0) ELSE Add(Head(s), Sum(Tail(s)))

Mean(s) == Div(Sum(s), Num(Len(s)))

\* floor(log2(n / d)) for n, d > 0: the binary exponent of the float64.
RECURSIVE Exponent(_, _)
Exponent(n, d) == IF n >= 2 * d THEN Exponent(n, 2 * d) + 1
                  ELSE IF n < d THEN Exponent(2 * n, d) - 1
                  ELSE 0

\* (r * 2^s) mod d.
RECURSIVE TimesPow2Mod(_, _, _)
TimesPow2Mod(r, s, d) == IF s = 0 THEN r ELSE TimesPow2Mod((2 * r) % d, s - 1, d)

\* Where the float64 nearest to n / d (n, d > 0) lies: 1 above it, -1 below
\* it, 0 when n / d is itself a float64.  Decided by the bits of n / d after
\* the 53rd significant one.
FloatSide(n, d) ==
    LET m == TimesPow2Mod(n % d, 52 - Exponent(n, d), d)
    IN  IF m = 0 THEN 0 ELSE IF 2 * m > d THEN 1 ELSE -1

\* n * 10^k / d (n >= 0, d > 0) as whole part and remainder, one decimal
\* digit at a time.
RECURSIVE Scaled(_, _, _)
Scaled(n, d, k) ==
    IF k = 0 THEN <<n \div d, n % d>>
    ELSE LET p == Scaled(n, d, k - 1)
         IN  <<p[1] * 10 + (p[2] * 10) \div d, (p[2] * 10) % d>>

\* p[1] + p[2] / d to the nearest integer, as formatting the float64 that
\* holds orig rounds it: a value halfway between two integers goes to the
\* even one when it is a float64 and to the side of the nearest float64
\* when it is not.
Nearest(p, d, orig) ==
    LET q == p[1]
        r == p[2]
    IN  IF 2 * r < d THEN q
        ELSE IF 2 * r > d THEN q + 1
        ELSE LET side == FloatSide(orig[1], orig[2])
             IN  IF side = 1 \/ (side = 0 /\ q % 2 = 1) THEN q + 1 ELSE q

\* ln 2 to eight decimals, times 10^8.
Ln2E8 == 69314718

\* |a| in ten-thousandths, rounded, for a finite a that is a rational or a
\* rational multiple of ln 2.
TenThousandths(a) ==
    IF a[3] = 0 THEN Nearest(Scaled(a[1], a[2], 4), a[2], a)
    ELSE IF a[3] = 1
         THEN Nearest(Scaled(a[1] * Ln2E8, a[2] * 10000, 0), a[2] * 10000, a)
    ELSE Unmodelled(a)

\* The format spec ":.4f": "nan", "inf" or the number rounded to four
\* decimals, carried as its sign and a count of ten-thousandths (e4).  A
\* negative value that rounds to zero prints as "-0.0000".
Fmt4(a) ==
    [kind  |-> IF IsNaN(a) THEN "nan" ELSE IF a[2] = 0 THEN "inf" ELSE "number",
     minus |-> a[1] < 0,
     e4    |-> IF a[2] = 0 THEN 0 ELSE TenThousandths(Abs(a))]

\* The exponent of a power of two.
RECURSIVE Log2(_)
Log2(m) == IF m = 1 THEN 0
           ELSE IF m % 2 = 0 THEN Log2(m \div 2) + 1
           ELSE Unmodelled(m)

\* One hundred million: the numbers of the first run that are no fractions
\* of small terms are held to eight decimals.
E8 == 100000000

\* np.log of the concentrations of default_data other than 1.000, to eight
\* decimals, times 10^8.
Log8(c) ==
    CASE c = <<819, 1000, 0>> -> -19967120
      [] c = <<67, 100, 0>>   -> -40047757
      [] c = <<549, 1000, 0>> -> -59965684
      [] c = <<449, 1000, 0>> -> -80073239
      [] c = <<46, 125, 0>>   -> -99967234
      [] c = <<301, 1000, 0>> -> -120064501

RECURSIVE PowerOfTwo(_)
PowerOfTwo(m) == m = 1 \/ (m % 2 = 0 /\ PowerOfTwo(m \div 2))

\* np.log: nan for nan and below zero, -inf at zero, on a power of two its
\* exponent times ln 2, and on a concentration of default_data the entry of
\* Log8.
log(c) ==
    IF IsNaN(c) \/ c[1] < 0 THEN NaN
    ELSE IF c[2] = 0 THEN Inf
    ELSE IF c[1] = 0 THEN Neg(Inf)
    ELSE IF c[3] # 0 THEN Unmodelled(c)
    ELSE IF PowerOfTwo(c[1]) /\ PowerOfTwo(c[2])
         THEN Val(Log2(c[1]) - Log2(c[2]), 1, 1)
    ELSE Val(Log8(c), E8, 0)

-----------------------------------------------------------------------------
(* The two input widgets.  The text area holds lines; a line is the fields *)
(* the user typed and the characters typed between them.                   *)

\* The options of the "Column Separator" selectbox, the first preselected.
DelimiterOptions == <<", (Comma)", "\\t (Tab)", " (Space)">>

Delimiters == {DelimiterOptions[i] : i \in 1..Len(DelimiterOptions)}

\* "," if "Comma" in delimiter else "\t" if "Tab" in delimiter else " "
sep_char(delim) == IF delim = ", (Comma)" THEN ","
                   ELSE IF delim = "\\t (Tab)" THEN "\t"
                   ELSE " "

TimeTokens == {"0", "1", "2"}

ConcTokens == {"-1", "0", "1", "2", "4"}

Typed(sep, fields) == [sep |-> sep, fields |-> fields]

\* Lines of two numeric fields typed with a comma.
CleanLines == {Typed(",", <<t, c>>) : t \in TimeTokens, c \in ConcTokens}

\* Lines that are not that: an empty field, a literal nan, an infinite
\* concentration, a missing field, a third field, and two numeric fields
\* typed with a space (one field that is no number when the separator is
\* the comma).  The user types lines of Lines.
OtherLines == {Typed(",", <<"1", "">>), Typed(",", <<"1", "nan">>),
               Typed(",", <<"1", "inf">>), Typed(",", <<"1">>),
               Typed(",", <<"1", "2", "1">>), Typed(" ", <<"2", "1">>)}

Lines == CleanLines \cup OtherLines

\* The text of a line.
RECURSIVE Join(_, _)
Join(fields, sep) == IF Len(fields) = 1 THEN fields[1]
                     ELSE fields[1] \o sep \o Join(Tail(fields), sep)

\* The fields of a line typed with ", ", split at the one of the two
\* characters that sep_char is: the other character stays in the field on
\* its side, left before the cut and right after it.
Around(fields, left, right) ==
    [i \in 1..Len(fields) |->
        (IF i > 1 THEN right ELSE "") \o fields[i]
        \o (IF i < Len(fields) THEN left ELSE "")]

\* row.strip().split(sep_char): the typed fields when the line was typed
\* with sep_char, the whole line as one field when sep_char is not in it.
split(line, sep) ==
    IF line.sep = sep THEN line.fields
    ELSE IF line.sep = ", " /\ sep = "," THEN Around(line.fields, "", " ")
    ELSE IF line.sep = ", " /\ sep = " " THEN Around(line.fields, ",", "")
    ELSE <<Join(line.fields, line.sep)>>

\* [row.strip().split(sep_char) for row in raw_text.strip().split('\n')
\*  if row.strip()]; no line of the model is blank.
RECURSIVE data_rows(_, _)
data_rows(text, sep) ==
    IF text = <<>> THEN <<>>
    ELSE <<split(Head(text), sep)>> \o data_rows(Tail(text), sep)

\* The cell pandas holds where a row is shorter than the frame is wide.
None == "<None>"

\* The text the text area holds on the first run.
default_data ==
    <<Typed(", ", <<"0", "1.000">>), Typed(", ", <<"10", "0.819">>),
      Typed(", ", <<"20", "0.670">>), Typed(", ", <<"30", "0.549">>),
      Typed(", ", <<"40", "0.449">>), Typed(", ", <<"50", "0.368">>),
      Typed(", ", <<"60", "0.301">>)>>

\* The numerals of the model.
Numerals ==
    {"-1", "0", "1", "2", "4", "10", "20", "30", "40", "50", "60",
     "1.000", "0.819", "0.670", "0.549", "0.449", "0.368", "0.301"}

\* The number a numeral denotes.
Denotes(t) ==
    CASE t = "-1" -> Num(-1)
      [] t = "0"  -> Num(0)
      [] t = "1"  -> Num(1)
      [] t = "2"  -> Num(2)
      [] t = "4"  -> Num(4)
      [] t = "10" -> Num(10)
      [] t = "20" -> Num(20)
      [] t = "30" -> Num(30)
      [] t = "40" -> Num(40)
      [] t = "50" -> Num(50)
      [] t = "60" -> Num(60)
      [] t = "1.000" -> Num(1)
      [] t = "0.819" -> Val(819, 1000, 0)
      [] t = "0.670" -> Val(670, 1000, 0)
      [] t = "0.549" -> Val(549, 1000, 0)
      [] t = "0.449" -> Val(449, 1000, 0)
      [] t = "0.368" -> Val(368, 1000, 0)
      [] t = "0.301" -> Val(301, 1000, 0)

\* A numeral after a space, as the comma leaves the second field of a line
\* typed with ", ".
Spaced == {" " \o t : t \in Numerals}

\* The cell pd.to_numeric reads as infinity: it is matched as a whole, so
\* that after a space it is no number.
Infinity == "inf"

\* The cells pd.to_numeric parses as numbers: before a numeral it skips the
\* space.
NumericTokens == Numerals \cup Spaced \cup {Infinity}

\* pd.to_numeric on one cell: "" and None become nan, "inf" becomes inf, any
\* other cell that is no number (the literal "nan" too) makes it raise.
to_numeric_raises(tok) == tok \notin NumericTokens /\ tok # "" /\ tok # None

to_numeric(tok) ==
    CASE tok \in Numerals -> Denotes(tok)
      [] tok = "" \/ tok = None -> NaN
      [] tok = Infinity -> Inf
      [] tok \in Spaced -> Denotes(CHOOSE t \in Numerals : tok = " " \o t)

RECURSIVE MaxLen(_)
MaxLen(rows) == IF rows = <<>> THEN 0
                ELSE LET m == MaxLen(Tail(rows))
                     IN  IF Len(Head(rows)) > m THEN Len(Head(rows)) ELSE m

Cell(row, j) == IF j <= Len(row) THEN row[j] ELSE None

\* pd.DataFrame(data_rows, columns=["Time", "Conc"]) raises when the widest
\* row is not 2 fields wide.  No rows at all give an empty two-column frame.
DataFrameRaises(rows) == rows # <<>> /\ MaxLen(rows) # 2

\* The frame of line 57: the cells are the fields, short rows padded with
\* None.
RECURSIVE DataFrame(_)
DataFrame(rows) ==
    IF rows = <<>> THEN <<>>
    ELSE <<[Time |-> Cell(Head(rows), 1), Conc |-> Cell(Head(rows), 2)]>>
         \o DataFrame(Tail(rows))

\* pd.to_numeric(df[name]) raises.
ColumnRaises(frame, name) ==
    \E i \in 1..Len(frame) : to_numeric_raises(frame[i][name])

\* df[name] = pd.to_numeric(df[name])
RECURSIVE Convert(_, _)
Convert(frame, name) ==
    IF frame = <<>> THEN <<>>
    ELSE <<[Head(frame) EXCEPT ![name] = to_numeric(@)]>>
         \o Convert(Tail(frame), name)

NotNa(rec) == ~IsNaN(rec.Time) /\ ~IsNaN(rec.Conc)

\* Mutant: the rows with a nan cell are kept.
dropna_kept(frame) == frame

dropna(frame) == SelectSeq(frame, NotNa)

\* Row j comes before row i when the frame is sorted by Time: its Time is
\* smaller, or equal and it stands earlier in the frame (rows of equal Time
\* keep their order).
Precedes(frame, j, i) ==
    \/ Less(frame[j].Time, frame[i].Time)
    \/ (~Less(frame[i].Time, frame[j].Time) /\ j < i)

\* The place of row i in the sorted frame.
Place(frame, i) == 1 + Cardinality({j \in 1..Len(frame) : Precedes(frame, j, i)})

sort_values(frame) ==
    [k \in 1..Len(frame) |-> frame[CHOOSE i \in 1..Len(frame) : Place(frame, i) = k]]

\* The value of a name the run has not bound.
Unbound == <<>>

\* The try block, lines 53-65: whether it raised, and the value df is left
\* with.  A raise at line 57 leaves df unbound, one at line 60 leaves the
\* frame of line 57, one at line 61 that frame with Time converted.
Parsing(text, delim) ==
    LET rows == data_rows(text, sep_char(delim))
        f57  == DataFrame(rows)
        f60  == Convert(f57, "Time")
    IN  IF DataFrameRaises(rows) THEN [raised |-> TRUE, df |-> Unbound]
        ELSE IF ColumnRaises(f57, "Time") THEN [raised |-> TRUE, df |-> f57]
        ELSE IF ColumnRaises(f60, "Conc") THEN [raised |-> TRUE, df |-> f60]
        ELSE [raised |-> FALSE, df |-> sort_values(dropna(Convert(f60, "Conc")))]

-----------------------------------------------------------------------------
(* scipy.stats.linregress and the three linearisations.                    *)

RECURSIVE Products(_, _)
Products(a, b) == IF a = <<>> THEN <<>>
                  ELSE <<Mul(Head(a), Head(b))>> \o Products(Tail(a), Tail(b))

\* A column of a frame.
RECURSIVE Col(_, _)
Col(frame, name) == IF frame = <<>> THEN <<>>
                    ELSE <<Head(frame)[name]>> \o Col(Tail(frame), name)

\* x - m, elementwise.
RECURSIVE Minus(_, _)
Minus(x, m) == IF x = <<>> THEN <<>>
               ELSE <<Sub(Head(x), m)>> \o Minus(Tail(x), m)

\* np.log(df_log["Conc"])
RECURSIVE LogOf(_)
LogOf(conc) == IF conc = <<>> THEN <<>>
               ELSE <<log(Head(conc))>> \o LogOf(Tail(conc))

\* 1.0 / df_inv["Conc"]
RECURSIVE InverseOf(_)
InverseOf(conc) == IF conc = <<>> THEN <<>>
                   ELSE <<Div(Num(1), Head(conc))>> \o InverseOf(Tail(conc))

AllEqual(x) == \A i \in 1..Len(x) : x[i] = x[1]

\* linregress raises ValueError on empty input and, for more than one point,
\* on identical x values.
linregress_raises(x) == Len(x) = 0 \/ (Len(x) > 1 /\ AllEqual(x))

\* Mutant: the moments are taken about zero, not about the mean.
DeviationsUncentred(x) == x

\* x - mean(x), elementwise.
Deviations(x) == Minus(x, Mean(x))

\* An entry of np.cov(x, y, bias=1): the mean product of the deviations.
MeanProduct(dx, dy) == Mean(Products(dx, dy))

\* rvalue**2 as the script holds it: the exact value it approximates (near)
\* and, for the values of a run that share the largest near, the place of
\* the float64 among them (rank, 0 the lowest).
Squared(near, rank) == [near |-> near, rank |-> rank]

\* The times of default_data and the points of the first and second order
\* fits of the first run: its concentrations are all positive, so that
\* neither filter drops a row, and its rows are typed in the order of Time.
default_x ==
    [i \in 1..Len(default_data) |-> to_numeric(default_data[i].fields[1])]

default_conc ==
    [i \in 1..Len(default_data) |-> to_numeric(default_data[i].fields[2])]

default_log == [i \in 1..Len(default_data) |-> log(default_conc[i])]

default_inv == [i \in 1..Len(default_data) |-> Div(Num(1), default_conc[i])]

\* A fit held to eight decimals, each number times 10^8.
Fit8(slope, intercept, rsq) ==
    [slope     |-> Val(slope, E8, 0),
     intercept |-> Val(intercept, E8, 0),
     rvalue_sq |-> Squared(Val(rsq, E8, 0), 0)]

\* The points whose fit is held to eight decimals.
Tabulated(x, y) ==
    /\ Len(x) = Len(default_data)
    /\ x = default_x
    /\ (y = default_log \/ y = default_inv)

\* np.cov(x, y, bias=1).flat, from the deviations of x and of y.
cov(dx, dy) ==
    [ssxm  |-> MeanProduct(dx, dx),
     ssxym |-> MeanProduct(dx, dy),
     ssym  |-> MeanProduct(dy, dy)]

\* slope, intercept and rvalue**2 from the means and the covariances.
Line(xmean, ymean, c) ==
    [slope     |-> Div(c.ssxym, c.ssxm),
     intercept |-> Sub(ymean, Mul(Div(c.ssxym, c.ssxm), xmean)),
     rvalue_sq |-> IF c.ssxm = Num(0) \/ c.ssym = Num(0)
                   THEN Squared(Num(0), 0)
                   ELSE Squared(Div(Mul(c.ssxym, c.ssxym), Mul(c.ssxm, c.ssym)), 0)]

\* The fit of a non-raising call, before rounding.  rvalue is 0.0 when
\* either variance is 0 and ssxym / sqrt(ssxm * ssym) otherwise.  The first
\* and second order fits of the first run are
\* (-0.02000783, 0.00011268, 0.99999890) and
\* (0.03819354, 0.82588718, 0.97128607).
linregress(x, y) ==
    IF Tabulated(x, y)
    THEN (IF y = default_log THEN Fit8(-2000783, 11268, 99999890)
          ELSE Fit8(3819354, 82588718, 97128607))
    ELSE Line(Mean(x), Mean(y), cov(Deviations(x), Deviations(y)))

\* float64 leaves rvalue**2 exact for the points (x, y): rvalue is the
\* literal 0.0 (a zero variance), or the quotient of two points, which is
\* exactly 1 or -1.
Exact(x, y) == Len(x) <= 2 \/ AllEqual(x) \/ AllEqual(y)

\* The order of two values of rvalue**2.
SquaredLess(a, b) ==
    \/ Less(a.near, b.near)
    \/ (a.near = b.near /\ ~IsNaN(a.near) /\ a.rank < b.rank)

SquaredGreater(a, b) == SquaredLess(b, a)

\* df[df["Conc"] > 0]
LogGuard(rec) == Greater(rec.Conc, Num(0))

\* Mutant: the second order filter repeats the first order one.
InvGuardPositive(rec) == Greater(rec.Conc, Num(0))

\* df[df["Conc"] != 0]
InvGuard(rec) == rec.Conc # Num(0)

FilterLog(frame) == SelectSeq(frame, LogGuard)

FilterInv(frame) == SelectSeq(frame, InvGuard)

-----------------------------------------------------------------------------
(* Compiled results and the best fit.                                      *)

\* The keys of the results dict, in insertion order.
OrderSeq == <<"Zeroth Order", "First Order", "Second Order">>

Orders == {OrderSeq[i] : i \in 1..Len(OrderSeq)}

\* Mutant: the slope is reported as it is.
KNotNegated(reg) == reg.slope

\* k of the zeroth and first order entries.
KNegated(reg) == Neg(reg.slope)

\* k of the second order entry.
KSecond(reg) == reg.slope

\* The f-string of an entry: left side, intercept, the literal sign and the
\* printed coefficient of t.
Eqn(lhs, sign, reg) ==
    [lhs       |-> lhs,
     intercept |-> Fmt4(reg.intercept),
     sign      |-> sign,
     coef      |-> Fmt4(Abs(reg.slope))]

Entry(reg, k, eqn) == [R2 |-> reg.rvalue_sq, k |-> k, eqn |-> eqn]

Results(r0, r1, r2) ==
    ("Zeroth Order" :> Entry(r0, KNegated(r0), Eqn("[A]", "-", r0)))
    @@ ("First Order" :> Entry(r1, KNegated(r1), Eqn("ln[A]", "-", r1)))
    @@ ("Second Order" :> Entry(r2, KSecond(r2), Eqn("1/[A]", "+", r2)))

\* Mutant: a later key also replaces the candidate on a tie.
MaxStepLast(res, cand, o) == IF ~SquaredLess(res[o].R2, res[cand].R2) THEN o ELSE cand

\* One step of Python's max(): a later key replaces the candidate only when
\* its key value is strictly greater.
MaxStep(res, cand, o) == IF SquaredGreater(res[o].R2, res[cand].R2) THEN o ELSE cand

RECURSIVE MaxFrom(_, _, _)
MaxFrom(res, cand, i) ==
    IF i > Len(OrderSeq) THEN cand
    ELSE MaxFrom(res, MaxStep(res, cand, OrderSeq[i]), i + 1)

\* max(results, key=lambda x: results[x]["R2"])
BestOrder(res) == MaxFrom(res, OrderSeq[1], 2)

\* Placeholders for names a run leaves unbound.
NoReg == [slope |-> NaN, intercept |-> NaN, rvalue_sq |-> Squared(NaN, 0)]

NoEntry == [R2 |-> Squared(NaN, 0), k |-> NaN,
            eqn |-> [lhs |-> "", intercept |-> Fmt4(NaN), sign |-> "", coef |-> Fmt4(NaN)]]

NoResults == [o \in Orders |-> NoEntry]

NoOrder == "unbound"

-----------------------------------------------------------------------------
(* One run of the script on the values of the two widgets.                 *)

\* Mutant: the flag keeps the value the previous run left.
ValidDataStale == valid_data

\* valid_data = False, before the try block.
ValidDataReset == FALSE

\* Section 3 from the second regression on: reached when reg0 is bound.
\* ok1 and ok2 say that the run reaches the line after reg1, after reg2.
Fits(frame, r0, flog, finv) ==
    LET t1  == Col(flog, "Time")
        c1  == LogOf(Col(flog, "Conc"))
        ok1 == ~linregress_raises(t1)
        t2  == Col(finv, "Time")
        c2  == InverseOf(Col(finv, "Conc"))
        ok2 == ok1 /\ ~linregress_raises(t2)
        r1  == IF ok1 THEN linregress(t1, c1) ELSE NoReg
        r2  == IF ok2 THEN linregress(t2, c2) ELSE NoReg
        res == IF ok2 THEN Results(r0, r1, r2) ELSE NoResults
    IN  [reg0 |-> r0,
         df_log |-> flog,
         x1 |-> t1,
         y1 |-> c1,
         reg1 |-> r1,
         df_inv |-> IF ok1 THEN finv ELSE Unbound,
         x2 |-> IF ok1 THEN t2 ELSE Unbound,
         y2 |-> IF ok1 THEN c2 ELSE Unbound,
         reg2 |-> r2,
         results |-> res,
         best_order |-> IF ok2 THEN BestOrder(res) ELSE NoOrder,
         shown |-> IF ok2 THEN "results" ELSE "exception"]

\* What a run leaves when it stops before reg0 is bound.
Stopped(what) ==
    [reg0 |-> NoReg, df_log |-> Unbound, x1 |-> Unbound, y1 |-> Unbound,
     reg1 |-> NoReg, df_inv |-> Unbound, x2 |-> Unbound, y2 |-> Unbound,
     reg2 |-> NoReg, results |-> NoResults, best_order |-> NoOrder,
     shown |-> what]

\* Section 3, the calculation engine, under "if valid_data".
Engine(frame) ==
    LET x == Col(frame, "Time")
    IN  IF linregress_raises(x) THEN Stopped("exception")
        ELSE Fits(frame, linregress(x, Col(frame, "Conc")),
                  FilterLog(frame), FilterInv(frame))

\* The script from line 72 on, after a try block that ended as parsed says.
AfterTry(parsed) ==
    LET valid  == IF parsed.raised THEN ValidDataReset ELSE TRUE
        frame  == IF parsed.raised THEN <<>> ELSE parsed.df
        head   == [valid_data |-> valid,
                   df |-> parsed.df,
                   x0 |-> IF valid THEN Col(frame, "Time") ELSE Unbound,
                   y0 |-> IF valid THEN Col(frame, "Conc") ELSE Unbound]
    IN  head @@ (IF valid THEN Engine(frame) ELSE Stopped("data_error"))

\* A run, before rounding: the values the script's names have when it ends,
\* and what the page shows: "results" (the verdict, table and plots),
\* "data_error" (st.error and st.warning, then the st.info prompt of the
\* else branch) or "exception" (an exception that escapes the script;
\* Streamlit prints the traceback).  valid_data is True when line 65 was
\* reached and keeps the False of line 51 when the try block raised.
Script(text, delim) == AfterTry(Parsing(text, delim))

\* The weak orders of three values, as ranks.
WeakOrders ==
    {<<0, 0, 0>>, <<0, 0, 1>>, <<0, 1, 0>>, <<1, 0, 0>>, <<0, 1, 1>>, <<1, 0, 1>>,
     <<1, 1, 0>>, <<0, 1, 2>>, <<0, 2, 1>>, <<1, 0, 2>>, <<1, 2, 0>>, <<2, 0, 1>>,
     <<2, 1, 0>>}

\* The orders in which float64 rounding can leave the largest rvalue**2 of
\* a run.  Values that differ before rounding keep their order; the values
\* that are equal to the largest before rounding come out in any order, but
\* two exact ones stay equal, and beside an exact one an inexact one is not
\* above 1 (rvalue is clipped to [-1, 1]) and not below 0 (a square).  The
\* rank is carried for these values and is 0 for the others.
Roundings(run) ==
    IF run.shown # "results" THEN {<<0, 0, 0>>}
    ELSE LET near  == <<run.reg0.rvalue_sq.near, run.reg1.rvalue_sq.near,
                        run.reg2.rvalue_sq.near>>
         IN  IF near[1] # near[2] /\ near[1] # near[3] /\ near[2] # near[3]
             THEN {<<0, 0, 0>>}
             ELSE LET exact == <<Exact(run.x0, run.y0), Exact(run.x1, run.y1),
                                 Exact(run.x2, run.y2)>>
                      top   == {i \in 1..3 : /\ ~IsNaN(near[i])
                                                  /\ \A j \in 1..3 : ~Less(near[i], near[j])}
                  IN  {r \in WeakOrders :
                         \A i \in 1..3 :
                           /\ r[i] = 0 \/ (i \in top /\ \E j \in top : r[j] = r[i] - 1)
                           /\ \A j \in top :
                                (i \in top /\ exact[i]) =>
                                  /\ exact[j] => r[j] = r[i]
                                  /\ near[i] = Num(1) => r[j] <= r[i]
                                  /\ near[i] = Num(0) => r[j] >= r[i]}

Rounded(reg, rank) == [reg EXCEPT !.rvalue_sq = Squared(@.near, rank)]

\* The run as float64 rounds it, for one of its roundings.
Float(run, r) ==
    IF r = <<0, 0, 0>> THEN run
    ELSE LET r0  == Rounded(run.reg0, r[1])
             r1  == Rounded(run.reg1, r[2])
             r2  == Rounded(run.reg2, r[3])
             res == [run.results EXCEPT !["Zeroth Order"].R2 = r0.rvalue_sq,
                                        !["First Order"].R2  = r1.rvalue_sq,
                                        !["Second Order"].R2 = r2.rvalue_sq]
         IN  [run EXCEPT !.reg0 = r0, !.reg1 = r1, !.reg2 = r2,
                         !.results = res, !.best_order = BestOrder(res)]

\* Streamlit runs the script on the widgets' values.
Rerun(text, delim) ==
    \E exact \in {Script(text, delim)} :
      \E r \in Roundings(exact) :
        \E run \in {Float(exact, r)} :
            /\ raw_text'   = text
            /\ delimiter'  = delim
            /\ valid_data' = run.valid_data
            /\ df'         = run.df
            /\ x0'         = run.x0
            /\ y0'         = run.y0
            /\ reg0'       = run.reg0
            /\ df_log'     = run.df_log
            /\ x1'         = run.x1
            /\ y1'         = run.y1
            /\ reg1'       = run.reg1
            /\ df_inv'     = run.df_inv
            /\ x2'         = run.x2
            /\ y2'         = run.y2
            /\ reg2'       = run.reg2
            /\ results'    = run.results
            /\ best_order' = run.best_order
            /\ shown'      = run.shown

\* The page after the first run: the text area holds default_data and the
\* selectbox its first option.
Init ==
    \E exact \in {Script(default_data, DelimiterOptions[1])} :
      \E r \in Roundings(exact) :
        \E run \in {Float(exact, r)} :
            /\ raw_text   = default_data
            /\ delimiter  = DelimiterOptions[1]
            /\ valid_data = run.valid_data
            /\ df         = run.df
            /\ x0         = run.x0
            /\ y0         = run.y0
            /\ reg0       = run.reg0
            /\ df_log     = run.df_log
            /\ x1         = run.x1
            /\ y1         = run.y1
            /\ reg1       = run.reg1
            /\ df_inv     = run.df_inv
            /\ x2         = run.x2
            /\ y2         = run.y2
            /\ reg2       = run.reg2
            /\ results    = run.results
            /\ best_order = run.best_order
            /\ shown      = run.shown

\* The user adds a line to the text and commits it.
AppendRow(line) ==
    /\ Len(raw_text) < MaxRows
    /\ Rerun(Append(raw_text, line), delimiter)

\* The user removes the last line of a text of at most MaxRows lines and
\* commits it.
DeleteLastRow ==
    /\ raw_text # <<>>
    /\ Len(raw_text) <= MaxRows
    /\ Rerun(SubSeq(raw_text, 1, Len(raw_text) - 1), delimiter)

\* The user clears the text area and commits it.
ClearText ==
    /\ raw_text # <<>>
    /\ Rerun(<<>>, delimiter)

\* The user picks another column separator.
ChangeDelimiter(delim) ==
    /\ delim # delimiter
    /\ Rerun(raw_text, delim)

Next ==
    \/ \E line \in Lines : AppendRow(line)
    \/ DeleteLastRow
    \/ ClearText
    \/ \E delim \in Delimiters : ChangeDelimiter(delim)

Spec == Init /\ [][Next]_vars

-----------------------------------------------------------------------------
(* Vocabulary of the properties.                                           *)

Zeroth == "Zeroth Order"

First == "First Order"

Second == "Second Order"

Comma == DelimiterOptions[1]

\* The samples of a frame as a bag: frames are compared up to row order.
RECURSIVE CountIn(_, _)
CountIn(frame, rec) ==
    IF frame = <<>> THEN 0
    ELSE (IF Head(frame) = rec THEN 1 ELSE 0) + CountIn(Tail(frame), rec)

SameSamples(f, g) ==
    /\ Len(f) = Len(g)
    /\ \A i \in 1..Len(f) : CountIn(f, f[i]) = CountIn(g, f[i])

\* The samples of df whose concentration is positive, and those whose
\* concentration is not zero, picked one index at a time.
RECURSIVE Positive(_, _)
Positive(frame, i) ==
    IF i > Len(frame) THEN <<>>
    ELSE (IF frame[i].Conc[1] > 0 THEN <<frame[i]>> ELSE <<>>) \o Positive(frame, i + 1)

RECURSIVE NonZero(_, _)
NonZero(frame, i) ==
    IF i > Len(frame) THEN <<>>
    ELSE (IF frame[i].Conc[1] # 0 THEN <<frame[i]>> ELSE <<>>) \o NonZero(frame, i + 1)

\* The (t, y) points of a regression pair up with the samples of a frame.
UsesSamples(x, frame) ==
    /\ Len(x) = Len(frame)
    /\ \A i \in 1..Len(x) : x[i] = frame[i].Time

Distinct(x) == \E i, j \in 1..Len(x) : x[i] # x[j]

\* The rows of the text under the separator now chosen.
TextRows == data_rows(raw_text, sep_char(delimiter))

\* A row of two fields that are finite numbers.
FiniteRow(row) ==
    /\ Len(row) = 2
    /\ row[1] \in Numerals \cup Spaced /\ row[2] \in Numerals \cup Spaced

\* A row of two fields that are numbers, infinity among them.
CleanRow(row) == Len(row) = 2 /\ row[1] \in NumericTokens /\ row[2] \in NumericTokens

RECURSIVE CleanCount(_)
CleanCount(rows) ==
    IF rows = <<>> THEN 0
    ELSE (IF CleanRow(Head(rows)) THEN 1 ELSE 0) + CleanCount(Tail(rows))

\* A row pandas cannot take: a third field, or a field that is neither a
\* number nor empty.
Unreadable(row) ==
    Len(row) > 2 \/ \E j \in 1..Len(row) : row[j] \notin NumericTokens \cup {""}

\* The batch is refused: some row is unreadable, or the text has rows and
\* none of them has two fields.
Refused(rows) ==
    \/ \E i \in 1..Len(rows) : Unreadable(rows[i])
    \/ (rows # <<>> /\ \A i \in 1..Len(rows) : Len(rows[i]) < 2)

\* a <= b on values of rvalue**2: False when either is nan.
SquaredAtMost(a, b) == ~IsNaN(a.near) /\ ~IsNaN(b.near) /\ ~SquaredLess(b, a)

\* The normal equation of least squares in sums: slope * Sxx = Sxy, with
\* Sxx = n*sum(x^2) - sum(x)^2 and Sxy = n*sum(x*y) - sum(x)*sum(y).
Sxx(x) == Sub(Mul(Num(Len(x)), Sum(Products(x, x))), Mul(Sum(x), Sum(x)))

Sxy(x, y) == Sub(Mul(Num(Len(x)), Sum(Products(x, y))), Mul(Sum(x), Sum(y)))

\* k is the slope of the least squares line through (x, y), times sgn; for a
\* single point the slope is nan and so is k.  Stated for the fits that are
\* held exactly.
IsSlopeTimes(k, sgn, x, y) ==
    IF Len(x) = 1 THEN IsNaN(k)
    ELSE Tabulated(x, y) \/ Mul(Mul(k, Num(sgn)), Sxx(x)) = Sxy(x, y)

-----------------------------------------------------------------------------
(* C1.  Fewer than 2 samples after parsing and cleaning end the run in a   *)
(* distinguished insufficient-data outcome: no regression result, no best  *)
(* order, no escaped exception.                                            *)
C1_InsufficientData ==
    (valid_data /\ Len(df) < 2) =>
        /\ shown \notin {"results", "exception"}
        /\ results = NoResults
        /\ best_order = NoOrder

(* C2.  With at least 2 samples, a model whose filtered subset has fewer   *)
(* than 2 samples gets R2 = 0 and the run still completes with a best      *)
(* order.  Stated where no subset of 2 or more has identical times.        *)
C2_DegenerateSubsetCompletes ==
    valid_data =>
        LET flog == Positive(df, 1)
            finv == NonZero(df, 1)
        IN  ( /\ Len(df) >= 2
              /\ Distinct(Col(df, "Time"))
              /\ (Len(flog) >= 2 => Distinct(Col(flog, "Time")))
              /\ (Len(finv) >= 2 => Distinct(Col(finv, "Time")))
              /\ (Len(flog) < 2 \/ Len(finv) < 2) )
            => /\ shown = "results"
               /\ best_order \in Orders
               /\ (Len(flog) < 2 => results[First].R2.near = Num(0))
               /\ (Len(finv) < 2 => results[Second].R2.near = Num(0))

(* C3.  A model fitted on 2 or more samples whose times are all equal or   *)
(* whose transformed concentrations are all equal gets r_squared = 0 and   *)
(* nothing raises.  Stated where every model has at least 2 samples.       *)
C3_ZeroVarianceIsZero ==
    valid_data =>
        LET flog == Positive(df, 1)
            finv == NonZero(df, 1)
            ylog == LogOf(Col(flog, "Conc"))
            yinv == InverseOf(Col(finv, "Conc"))
        IN  (Len(df) >= 2 /\ Len(flog) >= 2 /\ Len(finv) >= 2)
            => /\ shown = "results"
               /\ (~Distinct(Col(df, "Time")) \/ ~Distinct(Col(df, "Conc")))
                    => results[Zeroth].R2.near = Num(0)
               /\ (~Distinct(Col(flog, "Time")) \/ ~Distinct(ylog))
                    => results[First].R2.near = Num(0)
               /\ (~Distinct(Col(finv, "Time")) \/ ~Distinct(yinv))
                    => results[Second].R2.near = Num(0)

(* C4 as stated.  In a completed run the first and the second order fit    *)
(* each use exactly the samples with concentration > 0 and the zeroth      *)
(* order fit uses every sample.                                            *)
C4_BothGuardsPositive ==
    shown = "results" =>
        /\ UsesSamples(x0, df) /\ y0 = Col(df, "Conc")
        /\ SameSamples(df_log, Positive(df, 1)) /\ UsesSamples(x1, df_log)
        /\ SameSamples(df_inv, Positive(df, 1)) /\ UsesSamples(x2, df_inv)

(* C4 amended.  In a completed run the first order fit uses exactly the    *)
(* samples with concentration > 0, the second order fit exactly the        *)
(* samples with concentration # 0 (negative ones included) and the zeroth  *)
(* order fit every sample; a sample left out of one fit stays in the       *)
(* others.                                                                 *)
C4_GuardsAsFitted ==
    shown = "results" =>
        /\ UsesSamples(x0, df) /\ y0 = Col(df, "Conc")
        /\ SameSamples(df_log, Positive(df, 1)) /\ UsesSamples(x1, df_log)
        /\ SameSamples(df_inv, NonZero(df, 1)) /\ UsesSamples(x2, df_inv)

\* A completed run on negative, zero and positive concentrations: the three
\* fits use 3, 1 and 2 or more samples.
C4_Witness ==
    /\ shown = "results"
    /\ \E i \in 1..Len(df) : df[i].Conc[1] < 0
    /\ \E i \in 1..Len(df) : df[i].Conc[1] = 0
    /\ Len(x1) < Len(x2) /\ Len(x2) < Len(x0)

C7_RateConstantSign ==
    shown = "results" =>
        /\ results[Zeroth].k = Neg(reg0.slope) /\ IsSlopeTimes(results[Zeroth].k, -1, x0, y0)
        /\ results[First].k = Neg(reg1.slope)  /\ IsSlopeTimes(results[First].k, -1, x1, y1)
        /\ results[Second].k = reg2.slope      /\ IsSlopeTimes(results[Second].k, 1, x2, y2)

\* Rising concentrations: the zeroth and first order slopes are positive and
\* the second order slope is negative, so all three k are negative.
C7_Witness ==
    /\ shown = "results"
    /\ Greater(reg0.slope, Num(0)) /\ Less(results[Zeroth].k, Num(0))
    /\ Greater(reg1.slope, Num(0)) /\ Less(results[First].k, Num(0))
    /\ Less(reg2.slope, Num(0)) /\ Less(results[Second].k, Num(0))

(* C8 as stated.  A completed run on exactly 2 samples has R2 = 1 for      *)
(* each of the three models.                                               *)
C8_TwoPointsPerfect ==
    (shown = "results" /\ Len(df) = 2) =>
        \A o \in Orders : results[o].R2 = Squared(Num(1), 0)

(* C8 amended.  A dataset of exactly 2 samples with distinct times and     *)
(* distinct, positive, finite concentrations is evaluated to the end and   *)
(* has R2 = 1 for each of the three models.                                *)
C8_TwoDistinctPositivePoints ==
    ( /\ valid_data /\ Len(df) = 2
      /\ Distinct(Col(df, "Time")) /\ Distinct(Col(df, "Conc"))
      /\ \A i \in 1..Len(df) : df[i].Conc[1] > 0 /\ df[i].Conc[2] # 0 )
    => /\ shown = "results"
       /\ \A o \in Orders : results[o].R2 = Squared(Num(1), 0)

\* Two samples, entered later time first, of different positive
\* concentrations, evaluated.
C8_Witness ==
    /\ Len(raw_text) = 2 /\ valid_data /\ Len(df) = 2
    /\ raw_text[1].fields[1] = "2" /\ raw_text[2].fields[1] = "0"
    /\ Distinct(Col(df, "Conc"))
    /\ \A i \in 1..Len(df) : df[i].Conc[1] > 0 /\ df[i].Conc[2] # 0
    /\ shown = "results"

\* What a run of the script on the widgets' values leaves when no name has
\* a value from an earlier run, before rounding.
Fresh(text, delim) ==
    LET parsed == Parsing(text, delim)
    IN  IF parsed.raised
        THEN [raised |-> TRUE, x0 |-> Unbound, y0 |-> Unbound]
             @@ Stopped("data_error")
        ELSE [raised |-> FALSE, x0 |-> Col(parsed.df, "Time"),
              y0 |-> Col(parsed.df, "Conc")] @@ Engine(parsed.df)

(* C9.  Whatever inputs came before, what is shown is what a fresh run on  *)
(* the text now in the text area and the separator now chosen shows, up to *)
(* the rounding of that run; when that text does not parse, a data error   *)
(* is shown and no results or best order of an earlier input.              *)
C9_ShownIsOfLatestInput ==
    \E fresh \in {Fresh(raw_text, delimiter)} :
        /\ shown = fresh.shown
        /\ \E r \in Roundings(fresh) :
              \E run \in {Float(fresh, r)} :
                  /\ results = run.results
                  /\ best_order = run.best_order
        /\ fresh.raised =>
              /\ shown = "data_error" /\ ~valid_data
              /\ results = NoResults /\ best_order = NoOrder

\* A text whose results were shown, with a line appended that does not
\* parse: only the data error is shown.
C9_Witness ==
    /\ delimiter = Comma
    /\ Len(raw_text) = 3
    /\ raw_text[1].fields = <<"0", "2">> /\ raw_text[2].fields = <<"1", "1">>
    /\ raw_text[3].fields = <<"1", "nan">>
    /\ shown = "data_error"

\* The coefficient of t an equation denotes: the printed number with the
\* printed sign.
Denoted(eqn) == IF eqn.sign = "-" THEN -eqn.coef.e4 ELSE eqn.coef.e4

\* The slope to four decimals, signed.
SlopeE4(reg) == IF Fmt4(reg.slope).minus THEN -Fmt4(reg.slope).e4 ELSE Fmt4(reg.slope).e4

(* C10.  In a completed run each equation denotes the fitted line: the     *)
(* printed coefficient of t with the printed sign is the regression slope  *)
(* to the four decimals printed.                                           *)
C10_EquationDenotesSlope ==
    shown = "results" =>
        /\ results[Zeroth].eqn.coef.kind = Fmt4(reg0.slope).kind
        /\ results[First].eqn.coef.kind = Fmt4(reg1.slope).kind
        /\ results[Second].eqn.coef.kind = Fmt4(reg2.slope).kind
        /\ Denoted(results[Zeroth].eqn) = SlopeE4(reg0)
        /\ Denoted(results[First].eqn) = SlopeE4(reg1)
        /\ Denoted(results[Second].eqn) = SlopeE4(reg2)

====
